---------------------------- MODULE Spec2Model ----------------------------
(***************************************************************************)
(* Model of the rusty-gba core: the ARM7TDMI register bank and mode model  *)
(* (gba_cpu/arm_cpu.rs, gba_cpu/register.rs), the condition evaluator      *)
(* (gba_cpu/arm_instr.rs) and the segmented memory (gba_mem).              *)
(*                                                                         *)
(* A 32-bit word (RType, IType) is modelled as the set of its set bit      *)
(* positions, a subset of 0..31: & is intersection, | is union, ^ is the   *)
(* symmetric difference and ! is the complement in 0..31.  Addresses       *)
(* (usize) stay integers: every address used is below 2^31.                *)
(***************************************************************************)
EXTENDS Integers, Sequences, FiniteSets, TLC

VARIABLES
    regs,   \* ARM7.regs : physical cell 0..30 -> word
    cpsr,   \* ARM7.cpsr : word
    spsr,   \* ARM7.spsr : cell 0..5 -> word
    last,   \* the last call made on the CPU / condition layer and its outcome
    nreg,   \* number of register-file mutations still allowed (the budget)
    bank,   \* history of a write / mode-away / mode-back sequence
    mem,    \* Memory: region name -> [len, bytes touched since construction]
    pak,    \* length in bytes of the cartridge file given to Memory::new
    mlast,  \* the last call made on the Memory and its outcome
    nmem    \* number of memory writes still allowed (the budget)

vars == <<regs, cpsr, spsr, last, nreg, bank, mem, pak, mlast, nmem>>
cpuVars == <<regs, cpsr, spsr, last, nreg, bank>>
memVars == <<mem, pak, mlast, nmem>>

(***************************************************************************)
(* Bounds of the model.                                                    *)
(***************************************************************************)
MaxRegOps == 2         \* register-file mutations in SpecReg
MaxRegOpsFull == 1     \* register-file mutations in Spec
MaxMemWrites == 1      \* memory writes in SpecMem
MaxFnPcOps == 1        \* program-counter and register writes in SpecFn

(***************************************************************************)
(* 32-bit words as bit sets.                                               *)
(***************************************************************************)
AllBits == 0..31

\* the 16-bit number n as a set of bit positions
Bits16(n) == {i \in 0..15 : (n \div (2^i)) % 2 = 1}

\* the word 0xHHHHLLLL from its two 16-bit halves
Word(hi, lo) == Bits16(lo) \cup {i + 16 : i \in Bits16(hi)}

\* the number denoted by the bits lo..lo+15 of word x
Half(x, lo) ==
    LET f[i \in 0..16] ==
            IF i = 16 THEN 0
            ELSE (IF (lo + i) \in x THEN 2^i ELSE 0) + f[i + 1]
    IN  f[0]

\* (x + n) for a small n, with the carry out of bit 31
AddSmall(x, n) ==
    LET l == Half(x, 0) + n
        h == Half(x, 16) + (l \div 65536)
    IN  [sum |-> Word(h % 65536, l % 65536), carry |-> h >= 65536]

(***************************************************************************)
(* register.rs : Register                                                  *)
(***************************************************************************)
read_masked(x, mask) == x \cap mask

\* toggle without restricting val to mask
toggle_unmasked(x, mask, val) == (x \ val) \cup (val \ x)

toggle(x, mask, val) ==
    LET vm == val \cap mask IN (x \ vm) \cup (vm \ x)

set(x, mask, val) == x \cup (val \cap mask)

\* reset without the complement
reset_no_negate(x, mask, val) == x \cap (val \cap mask)

reset(x, mask, val) == x \cap (AllBits \ (val \cap mask))

(***************************************************************************)
(* arm_cpu.rs : constants                                                  *)
(***************************************************************************)
PSR_COND_MASK == Word(61440, 0)     \* 0xF0000000
N_MASK == {31}                      \* 0x80000000
Z_MASK == {30}                      \* 0x40000000
C_MASK == {29}                      \* 0x20000000
V_MASK == {28}                      \* 0x10000000
I_MASK == {7}                       \* 0x80
F_MASK == {6}                       \* 0x40
T_MASK == {5}                       \* 0x20
M_MASK == {0, 1, 2, 3, 4}           \* 0x1F

USER_MODE == Bits16(16)             \* 0b10000
FIQ_MODE  == Bits16(17)             \* 0b10001
IRQ_MODE  == Bits16(18)             \* 0b10010
SV_MODE   == Bits16(19)             \* 0b10011
ABRT_MODE == Bits16(23)             \* 0b10111
UDEF_MODE == Bits16(27)             \* 0b11011
SYS_MODE  == Bits16(31)             \* 0b11111

R0 == 0
R7 == 7
R8 == 8
R12 == 12
R13 == 13
R14 == 14
R15 == 15
R8_FIQ == 16
R13_FIQ == 21
R13_SV == 23
R13_ABT == 25
R13_IRQ == 27
R13_UND == 29
NUM_REGS == 31
SPSR_FIQ == 0
SPSR_SV == 1
SPSR_ABT == 2
SPSR_IRQ == 3
SPSR_UND == 4
NUM_STATUS_REGS == 6
PC == R15

ARM7Mode == {"User", "FIQ", "IRQ", "Supervisor", "Abort", "Undefined", "System"}

\* `new_mode as u32`: the discriminant of the enum
ModeDiscriminant(m) ==
    CASE m = "User"       -> USER_MODE
      [] m = "FIQ"        -> FIQ_MODE
      [] m = "IRQ"        -> IRQ_MODE
      [] m = "Supervisor" -> SV_MODE
      [] m = "Abort"      -> ABRT_MODE
      [] m = "Undefined"  -> UDEF_MODE
      [] m = "System"     -> SYS_MODE

\* Option::None of reg_map_index, and the unreachable!() outcome
None == -1
Fatal == -2
Unreachable == "unreachable"

(***************************************************************************)
(* arm_cpu.rs : ARM7 queries, as functions of the current-status word      *)
(***************************************************************************)
is_neg_lt(c)      == read_masked(c, N_MASK) # {}
is_zero(c)        == read_masked(c, Z_MASK) # {}
is_carry(c)       == read_masked(c, C_MASK) # {}
is_overflow(c)    == read_masked(c, V_MASK) # {}
is_irq_disable(c) == read_masked(c, I_MASK) # {}
is_fiq_disable(c) == read_masked(c, F_MASK) # {}
is_thumb(c)       == read_masked(c, T_MASK) # {}

mode(c) ==
    LET b == read_masked(c, M_MASK)
    IN  CASE b = USER_MODE -> "User"
          [] b = FIQ_MODE  -> "FIQ"
          [] b = IRQ_MODE  -> "IRQ"
          [] b = SV_MODE   -> "Supervisor"
          [] b = ABRT_MODE -> "Abort"
          [] b = UDEF_MODE -> "Undefined"
          [] b = SYS_MODE  -> "System"
          [] OTHER         -> Unreachable

\* reg_map_index with the IRQ and Supervisor banks exchanged
reg_map_index_swapped(c, reg_num) ==
    IF ~is_thumb(c)
    THEN IF reg_num <= R7 \/ reg_num = PC
         THEN reg_num
         ELSE LET m == mode(c)
              IN  IF m = Unreachable THEN Fatal
                  ELSE IF m \in {"User", "System"} THEN reg_num
                  ELSE IF m = "FIQ" THEN reg_num + R8_FIQ - R8
                  ELSE IF reg_num <= R12 THEN reg_num
                  ELSE (CASE m = "IRQ"        -> reg_num + R13_SV
                          [] m = "Supervisor" -> reg_num + R13_IRQ
                          [] m = "Abort"      -> reg_num + R13_ABT
                          [] m = "Undefined"  -> reg_num + R13_UND) - R13
    ELSE IF reg_num <= R7 THEN reg_num ELSE None

\* reg_map_index with the Thumb branch handing out R8..R15 as well
reg_map_index_thumb_high(c, reg_num) ==
    IF ~is_thumb(c)
    THEN IF reg_num <= R7 \/ reg_num = PC
         THEN reg_num
         ELSE LET m == mode(c)
              IN  IF m = Unreachable THEN Fatal
                  ELSE IF m \in {"User", "System"} THEN reg_num
                  ELSE IF m = "FIQ" THEN reg_num + R8_FIQ - R8
                  ELSE IF reg_num <= R12 THEN reg_num
                  ELSE (CASE m = "IRQ"        -> reg_num + R13_IRQ
                          [] m = "Supervisor" -> reg_num + R13_SV
                          [] m = "Abort"      -> reg_num + R13_ABT
                          [] m = "Undefined"  -> reg_num + R13_UND) - R13
    ELSE reg_num

\* reg_map_index with Abort mode handed the Supervisor pair
reg_map_index_shared_bank(c, reg_num) ==
    IF ~is_thumb(c)
    THEN IF reg_num <= R7 \/ reg_num = PC
         THEN reg_num
         ELSE LET m == mode(c)
              IN  IF m = Unreachable THEN Fatal
                  ELSE IF m \in {"User", "System"} THEN reg_num
                  ELSE IF m = "FIQ" THEN reg_num + R8_FIQ - R8
                  ELSE IF reg_num <= R12 THEN reg_num
                  ELSE (CASE m = "IRQ"        -> reg_num + R13_IRQ
                          [] m = "Supervisor" -> reg_num + R13_SV
                          [] m = "Abort"      -> reg_num + R13_SV
                          [] m = "Undefined"  -> reg_num + R13_UND) - R13
    ELSE IF reg_num <= R7 THEN reg_num ELSE None

reg_map_index(c, reg_num) ==
    IF ~is_thumb(c)
    THEN IF reg_num <= R7 \/ reg_num = PC
         THEN reg_num
         ELSE LET m == mode(c)
              IN  IF m = Unreachable THEN Fatal
                  ELSE IF m \in {"User", "System"} THEN reg_num
                  ELSE IF m = "FIQ" THEN reg_num + R8_FIQ - R8
                  ELSE IF reg_num <= R12 THEN reg_num
                  ELSE (CASE m = "IRQ"        -> reg_num + R13_IRQ
                          [] m = "Supervisor" -> reg_num + R13_SV
                          [] m = "Abort"      -> reg_num + R13_ABT
                          [] m = "Undefined"  -> reg_num + R13_UND) - R13
    ELSE IF reg_num <= R7 THEN reg_num ELSE None

\* ARM7::reg : Some(value of the mapped cell) or None
reg(rs, c, reg_num) ==
    LET x == reg_map_index(c, reg_num)
    IN  IF x \in {None, Fatal} THEN [some |-> FALSE, val |-> {}]
        ELSE [some |-> TRUE, val |-> rs[x]]

pc(rs) == rs[PC]

\* ARM7::spsr with IRQ mode handed the Supervisor cell
spsr_cell_shared(c) ==
    LET m == mode(c)
    IN  CASE m = "User"       -> None
          [] m = "FIQ"        -> SPSR_FIQ
          [] m = "IRQ"        -> SPSR_SV
          [] m = "Supervisor" -> SPSR_SV
          [] m = "Abort"      -> SPSR_ABT
          [] m = "Undefined"  -> SPSR_UND
          [] m = "System"     -> None
          [] OTHER            -> Fatal

\* ARM7::spsr : the index of the saved-status cell handed out, or None
spsr_cell(c) ==
    LET m == mode(c)
    IN  CASE m = "User"       -> None
          [] m = "FIQ"        -> SPSR_FIQ
          [] m = "IRQ"        -> SPSR_IRQ
          [] m = "Supervisor" -> SPSR_SV
          [] m = "Abort"      -> SPSR_ABT
          [] m = "Undefined"  -> SPSR_UND
          [] m = "System"     -> None
          [] OTHER            -> Fatal

(***************************************************************************)
(* arm_cpu.rs : ARM7 mutators of the current-status word                   *)
(***************************************************************************)
set_neg_lt(c)        == set(c, N_MASK, N_MASK)
reset_neg_lt(c)      == reset(c, N_MASK, N_MASK)
set_zero(c)          == set(c, Z_MASK, Z_MASK)
reset_zero(c)        == reset(c, Z_MASK, Z_MASK)
set_carry(c)         == set(c, C_MASK, C_MASK)
reset_carry(c)       == reset(c, C_MASK, C_MASK)
set_overflow(c)      == set(c, V_MASK, V_MASK)
reset_overflow(c)    == reset(c, V_MASK, V_MASK)
reset_cond(c)        == reset(c, PSR_COND_MASK, PSR_COND_MASK)
set_irq_disable(c)   == set(c, I_MASK, I_MASK)
reset_irq_disable(c) == reset(c, I_MASK, I_MASK)
set_fiq_disable(c)   == set(c, F_MASK, F_MASK)
reset_fiq_disable(c) == reset(c, F_MASK, F_MASK)
set_thumb(c)         == set(c, T_MASK, T_MASK)
reset_thumb(c)       == reset(c, T_MASK, T_MASK)

\* set_mode flipping the mode bits instead of or-ing them in
set_mode_toggle(c, new_mode) == toggle(c, M_MASK, ModeDiscriminant(new_mode))

\* set_mode overwriting the whole status word
set_mode_write(c, new_mode) == ModeDiscriminant(new_mode)

set_mode(c, new_mode) == set(c, M_MASK, ModeDiscriminant(new_mode))

\* default construction that forgets set_irq_disable()
DefaultCpsr_unmasked == set_mode({}, "FIQ")

\* impl Default for ARM7: all cells zero, then set_mode(FIQ), set_irq_disable()
DefaultCpsr == set_irq_disable(set_mode({}, "FIQ"))
DefaultRegs == [i \in 0..(NUM_REGS - 1) |-> {}]
DefaultSpsr == [i \in 0..(NUM_STATUS_REGS - 1) |-> {}]


(***************************************************************************)
(* arm_instr.rs : Cond                                                     *)
(***************************************************************************)
COND_MASK == Word(61440, 0)         \* 0xF0000000
COND_SHIFT == 27

\* x << n on u32: the bits shifted past bit 31 are dropped
Shl(x, n) == {i + n : i \in x} \cap AllBits

\* the conditions in the order of the match arms of decode and is_satisfied
CondOrder == <<"EQ", "NE", "CS", "CC", "MI", "PL", "VS", "VC",
               "HI", "LS", "GE", "LT", "GT", "LE", "AL">>
Cond == {CondOrder[i] : i \in 1..15}

\* COND_EQ_MASKED .. COND_AL_MASKED: 0b0000 << COND_SHIFT .. 0b1110 << COND_SHIFT,
\* by position in CondOrder
CondMasked == [i \in 1..15 |-> Shl(Bits16(i - 1), COND_SHIFT)]

\* the discriminant of a Cond value: COND_x_MASKED as isize
CondDiscriminant(cond) == CondMasked[CHOOSE i \in 1..15 : CondOrder[i] = cond]

\* the first match arm whose pattern equals x, or unreachable!()
CondMatch(x) ==
    LET hits == {i \in 1..15 : CondMasked[i] = x}
    IN  IF hits = {} THEN Unreachable
        ELSE CondOrder[CHOOSE i \in hits : \A j \in hits : i <= j]

\* Cond::decode
decode(instr) == CondMatch(instr \cap COND_MASK)

\* the body of the match arm of is_satisfied named arm
CondArm(arm, c) ==
    CASE arm = "EQ" -> is_zero(c)
      [] arm = "NE" -> ~is_zero(c)
      [] arm = "CS" -> is_carry(c)
      [] arm = "CC" -> ~is_carry(c)
      [] arm = "MI" -> is_neg_lt(c)
      [] arm = "PL" -> ~is_neg_lt(c)
      [] arm = "VS" -> is_overflow(c)
      [] arm = "VC" -> ~is_overflow(c)
      [] arm = "HI" -> is_carry(c) /\ ~is_zero(c)
      [] arm = "LS" -> ~is_carry(c) /\ is_zero(c)
      [] arm = "GE" -> is_neg_lt(c) = is_overflow(c)
      [] arm = "LT" -> is_neg_lt(c) # is_overflow(c)
      [] arm = "GT" -> is_zero(c) /\ (is_neg_lt(c) = is_overflow(c))
      [] arm = "LE" -> ~is_zero(c) \/ (is_neg_lt(c) # is_overflow(c))
      [] arm = "AL" -> TRUE

\* Cond::is_satisfied: the assertion on the shift amount, then the match on
\* `*self as IType & COND_MASK`
is_satisfied(cond, c) ==
    IF Shl(Bits16(15), COND_SHIFT) # COND_MASK
    THEN [out |-> "fatal", val |-> FALSE]
    ELSE LET arm == CondMatch(CondDiscriminant(cond) \cap COND_MASK)
         IN  IF arm = Unreachable THEN [out |-> "fatal", val |-> FALSE]
             ELSE [out |-> "ok", val |-> CondArm(arm, c)]

(***************************************************************************)
(* arm_instr : the branch instruction.                                     *)
(***************************************************************************)
BRANCH_LINK   == {24}                           \* 0x01000000
BRANCH_SIGN   == {23}                           \* 0x00800000
BRANCH_EXTEND == 24..31                         \* 0xFF000000

\* `as SIType`: the word read as a two's-complement 32-bit integer
AsSigned(x) ==
    LET f[j \in 0..31] ==
            IF j = 31 THEN 0
            ELSE (IF (j \in x) # (31 \in x) THEN 2^j ELSE 0) + f[j + 1]
    IN  IF 31 \in x THEN (-1) - f[0] ELSE f[0]

\* Branch::decode without the sign extension
Branch_decode_unsigned(instr) ==
    LET c == decode(instr)
    IN  IF c = Unreachable
        THEN [out |-> "fatal", cond |-> "", link |-> FALSE, off |-> 0]
        ELSE [out |-> "ok", cond |-> c,
              link |-> (instr \cap BRANCH_LINK = BRANCH_LINK),
              off |-> AsSigned(Shl(instr \ BRANCH_EXTEND, 2))]

\* Branch::decode: the fields in order, cond first
Branch_decode(instr) ==
    LET c == decode(instr)
        x == IF instr \cap BRANCH_SIGN # {}
             THEN instr \cup BRANCH_EXTEND
             ELSE instr \ BRANCH_EXTEND
    IN  IF c = Unreachable
        THEN [out |-> "fatal", cond |-> "", link |-> FALSE, off |-> 0]
        ELSE [out |-> "ok", cond |-> c,
              link |-> (instr \cap BRANCH_LINK = BRANCH_LINK),
              off |-> AsSigned(Shl(x, 2))]

(***************************************************************************)
(* Inputs of the CPU operations.                                           *)
(***************************************************************************)
\* logical registers written: one of each banking class (unbanked low,
\* FIQ-banked, banked in every exception mode, program counter)
RegSample == {R0, R8, R13, R15}
RegVals == {Bits16(1), Word(57005, 48879)}      \* 1, 0xDEADBEEF
PcVals == {Bits16(1), Word(65535, 65532)}       \* 1, 0xFFFFFFFC
\* the smaller inputs of the register operations in Spec
RegSampleFull == {R8, R13}
RegValsFull == {Word(57005, 48879)}
PcValsFull == {Word(65535, 65532)}

FlagOps == {"set_neg_lt", "reset_neg_lt", "set_zero", "reset_zero",
            "set_carry", "reset_carry", "set_overflow", "reset_overflow",
            "reset_cond", "set_irq_disable", "reset_irq_disable",
            "set_fiq_disable", "reset_fiq_disable", "set_thumb", "reset_thumb"}

\* the method named f applied to the current-status word
ApplyFlagOp(f, c) ==
    CASE f = "set_neg_lt"        -> set_neg_lt(c)
      [] f = "reset_neg_lt"      -> reset_neg_lt(c)
      [] f = "set_zero"          -> set_zero(c)
      [] f = "reset_zero"        -> reset_zero(c)
      [] f = "set_carry"         -> set_carry(c)
      [] f = "reset_carry"       -> reset_carry(c)
      [] f = "set_overflow"      -> set_overflow(c)
      [] f = "reset_overflow"    -> reset_overflow(c)
      [] f = "reset_cond"        -> reset_cond(c)
      [] f = "set_irq_disable"   -> set_irq_disable(c)
      [] f = "reset_irq_disable" -> reset_irq_disable(c)
      [] f = "set_fiq_disable"   -> set_fiq_disable(c)
      [] f = "reset_fiq_disable" -> reset_fiq_disable(c)
      [] f = "set_thumb"         -> set_thumb(c)
      [] f = "reset_thumb"       -> reset_thumb(c)

\* a call and its outcome: op the operation, m a mode or condition name, r a
\* register number, v a word, out "ok" / "none" / "fatal", res a number returned
FnCall(op, m, r, v, out, res) ==
    [op |-> op, m |-> m, r |-> r, v |-> v, out |-> out, res |-> res]
Call(op, m, r, v, out) == FnCall(op, m, r, v, out, 0)
NoCall == Call("new", "", 0, {}, "ok")

(***************************************************************************)
(* History of the sequence "write v to r in mode A; set_mode(B); writes to *)
(* r; set_mode(A)".  phase 1: written, 2: away in B, 3: back in A.         *)
(***************************************************************************)
NoBank == [phase |-> 0, A |-> "", B |-> "", r |-> 0, v |-> {}]

BankOnWrite(r, v) ==
    IF r \in R8..R14 /\ ~is_thumb(cpsr) /\ mode(cpsr) # Unreachable
    THEN IF bank.phase = 2 /\ bank.r = r
         THEN bank
         ELSE [phase |-> 1, A |-> mode(cpsr), B |-> "", r |-> r, v |-> v]
    ELSE NoBank

BankOnSetMode(m) ==
    IF bank.phase = 1 /\ m # bank.A THEN [bank EXCEPT !.phase = 2, !.B = m]
    ELSE IF bank.phase = 2 /\ m = bank.A THEN [bank EXCEPT !.phase = 3]
    ELSE NoBank

(***************************************************************************)
(* The CPU as a state machine: one action per public operation of ARM7.    *)
(***************************************************************************)
Running == last.out # "fatal"

SetMode(new_mode) ==
    /\ Running
    /\ cpsr' = set_mode(cpsr, new_mode)
    /\ last' = Call("set_mode", new_mode, 0, {}, "ok")
    /\ bank' = BankOnSetMode(new_mode)
    /\ UNCHANGED <<regs, spsr, nreg, memVars>>

FlagOp(f) ==
    /\ Running
    /\ cpsr' = ApplyFlagOp(f, cpsr)
    /\ last' = Call(f, "", 0, {}, "ok")
    /\ bank' = NoBank
    /\ UNCHANGED <<regs, spsr, nreg, memVars>>

\* cpu.reg_mut(r).map(|x| x.write(v))
RegMutWrite(r, v) ==
    /\ Running
    /\ nreg > 0
    /\ nreg' = nreg - 1
    /\ LET x == reg_map_index(cpsr, r)
       IN  IF x = Fatal
           THEN /\ last' = Call("reg_mut", "", r, v, "fatal")
                /\ UNCHANGED <<regs, bank>>
           ELSE IF x = None
           THEN /\ last' = Call("reg_mut", "", r, v, "none")
                /\ bank' = NoBank
                /\ UNCHANGED regs
           ELSE /\ regs' = [regs EXCEPT ![x] = v]
                /\ last' = Call("reg_mut", "", r, v, "ok")
                /\ bank' = BankOnWrite(r, v)
    /\ UNCHANGED <<cpsr, spsr, memVars>>

\* cpu.reg_op(r, |x| x.write(v))
RegOp(r, v) ==
    /\ Running
    /\ nreg > 0
    /\ nreg' = nreg - 1
    /\ LET x == reg_map_index(cpsr, r)
       IN  IF x \in {None, Fatal}
           THEN /\ last' = Call("reg_op", "", r, v, "fatal")
                /\ UNCHANGED <<regs, bank>>
           ELSE /\ regs' = [regs EXCEPT ![x] = v]
                /\ last' = Call("reg_op", "", r, v, "ok")
                /\ bank' = BankOnWrite(r, v)
    /\ UNCHANGED <<cpsr, spsr, memVars>>

\* set_pc written through the register map: the write is lost where the map
\* has no cell for register 15
SetPc_via_reg_mut(pc_val) ==
    /\ Running
    /\ nreg > 0
    /\ nreg' = nreg - 1
    /\ LET x == reg_map_index(cpsr, PC)
       IN  regs' = IF x \in {None, Fatal} THEN regs
                   ELSE [regs EXCEPT ![x] = pc_val]
    /\ last' = Call("set_pc", "", PC, pc_val, "ok")
    /\ bank' = NoBank
    /\ UNCHANGED <<cpsr, spsr, memVars>>

SetPc(pc_val) ==
    /\ Running
    /\ nreg > 0
    /\ nreg' = nreg - 1
    /\ regs' = [regs EXCEPT ![PC] = pc_val]
    /\ last' = Call("set_pc", "", PC, pc_val, "ok")
    /\ bank' = NoBank
    /\ UNCHANGED <<cpsr, spsr, memVars>>

\* pc_val + 0b10 / 0b100 on u32: a build with overflow checks panics when the
\* sum leaves 32 bits, a build without them wraps
IncPc ==
    /\ Running
    /\ nreg > 0
    /\ nreg' = nreg - 1
    /\ LET pc_val == regs[PC]
           s == IF is_thumb(cpsr) THEN AddSmall(pc_val, 2) ELSE AddSmall(pc_val, 4)
           m == IF is_thumb(cpsr) THEN AllBits \ {0} ELSE AllBits \ {0, 1}
       IN  \/ /\ regs' = [regs EXCEPT ![PC] = s.sum \cap m]
              /\ last' = Call("inc_pc", "", PC, pc_val, "ok")
              /\ bank' = NoBank
           \/ /\ s.carry
              /\ last' = Call("inc_pc", "", PC, pc_val, "fatal")
              /\ UNCHANGED <<regs, bank>>
    /\ UNCHANGED <<cpsr, spsr, memVars>>

(***************************************************************************)
(* gba_mem : regions, typed reads and writes, the dispatcher.              *)
(* A region's buffer is modelled by its length and the bytes written since *)
(* construction; every other byte has its construction-time content.  A    *)
(* typed value is a word; its width in bytes w stands for its type (u8/i8: *)
(* 1, u16/i16: 2, u32/i32/f32: 4), the signed and float types being the    *)
(* same little-endian bytes.                                               *)
(***************************************************************************)
BYTE_WIDTH == 8

\* new_mem_region! declarations, numbered in the order Memory::read tests them
SystemRom == 1
ExternRam == 2
InternRam == 3
PalettRam == 4
VisualRam == 5
OAM == 6
PakRom == 7

Regions ==
    <<[lo |-> 0,         hi |-> 131071],        \* 0x00000000 .. 0x0001FFFF
      [lo |-> 33554432,  hi |-> 33816575],      \* 0x02000000 .. 0x0203FFFF
      [lo |-> 50331648,  hi |-> 50364415],      \* 0x03000000 .. 0x03007FFF
      [lo |-> 83886080,  hi |-> 83887103],      \* 0x05000000 .. 0x050003FF
      [lo |-> 100663296, hi |-> 100761599],     \* 0x06000000 .. 0x06017FFF
      [lo |-> 117440512, hi |-> 117441535],     \* 0x07000000 .. 0x070003FF
      [lo |-> 134217728, hi |-> 268435455]>>    \* 0x08000000 .. 0x0FFFFFFF

lo(i) == Regions[i].lo
hi(i) == Regions[i].hi

\* MemoryRegion::len, and the length given to vec! at construction
len(i) == (hi(i) - lo(i)) \div BYTE_WIDTH + 1

\* def_mem_region_ops! invocations: the widths each region implements
ReadWidths == [i \in 1..7 |-> {1, 2, 4}]
WriteWidths ==
    [i \in 1..7 |->
        CASE i = SystemRom -> {}
          [] i \in {ExternRam, InternRam, PakRom} -> {1, 2, 4}
          [] i \in {PalettRam, VisualRam, OAM} -> {2, 4}]

\* byte k of the boot-ROM image and of the cartridge file (their contents
\* are inputs; any fixed pattern stands for them)
BiosByte(k) == (k * 7 + 3) % 256
FileByte(k) == (k * 5 + 1) % 256

\* the byte at offset off of region i's buffer right after Memory::new
InitialByte(p, i, off) ==
    IF i = SystemRom THEN BiosByte(off)
    ELSE IF i = PakRom /\ off < p THEN FileByte(off)
    ELSE 0

\* self.mem[off]
MemByte(m, p, i, off) ==
    IF off \in DOMAIN m[i] THEN m[i][off] ELSE InitialByte(p, i, off)

\* byte k of word v, least significant first, and the word of w bytes
ByteOf(v, k) ==
    LET f[j \in 0..8] ==
            IF j = 8 THEN 0
            ELSE (IF (8 * k + j) \in v THEN 2^j ELSE 0) + f[j + 1]
    IN  f[0]
BitsOfByte(b, k) == {8 * k + j : j \in {j \in 0..7 : (b \div (2^j)) % 2 = 1}}
Truncate(v, w) == v \cap (0..(8 * w - 1))

MemFatal == [out |-> "fatal", val |-> {}]

\* mem_read_as_self: self.mem[addr - lo] as T
mem_read_as_self(m, p, i, addr) ==
    LET off == addr - lo(i)
    IN  IF off < len(i)
        THEN [out |-> "ok", val |-> BitsOfByte(MemByte(m, p, i, off), 0)]
        ELSE MemFatal

\* a multi-byte read that takes the bytes past the end of the buffer as zero
mem_read_as_other_padded(m, p, i, addr, w) ==
    LET off == addr - lo(i)
    IN  [out |-> "ok",
         val |-> UNION {BitsOfByte(MemByte(m, p, i, off + k), k) :
                           k \in {k \in 0..(w - 1) : off + k < len(i)}}]

\* mem_read_as_other: a little-endian read of w bytes through a cursor at
\* addr - lo, unwrapped
mem_read_as_other(m, p, i, addr, w) ==
    LET off == addr - lo(i)
    IN  IF off + w <= len(i)
        THEN [out |-> "ok",
              val |-> UNION {BitsOfByte(MemByte(m, p, i, off + k), k) : k \in 0..(w - 1)}]
        ELSE MemFatal

\* <Region as MemRead<T>>::read
region_read(m, p, i, addr, w) ==
    IF w = 1 THEN mem_read_as_self(m, p, i, addr)
    ELSE mem_read_as_other(m, p, i, addr, w)

\* the bytes stored one offset too far
Store_shifted(m, i, off, val, ks) ==
    [m EXCEPT ![i] =
        [o \in DOMAIN m[i] \cup {off + k + 1 : k \in ks} |->
            IF o - off - 1 \in ks THEN ByteOf(val, o - off - 1) ELSE m[i][o]]]

\* region i's buffer with the bytes ks of val stored from offset off on
Store(m, i, off, val, ks) ==
    [m EXCEPT ![i] =
        [o \in DOMAIN m[i] \cup {off + k : k \in ks} |->
            IF o - off \in ks THEN ByteOf(val, o - off) ELSE m[i][o]]]

\* mem_write_as_self: self.mem[addr - lo] = val as u8
mem_write_as_self(m, i, addr, val) ==
    LET off == addr - lo(i)
    IN  IF off < len(i)
        THEN [out |-> "ok", mem |-> Store(m, i, off, val, {0})]
        ELSE [out |-> "fatal", mem |-> m]

\* mem_write_as_other: a little-endian write of w bytes through a cursor
\* over the buffer at addr - lo, unwrapped: the bytes that fit are stored,
\* and the write fails when not all of them fit
mem_write_as_other(m, i, addr, val, w) ==
    LET off == addr - lo(i)
        fit == {k \in 0..(w - 1) : off + k < len(i)}
    IN  [out |-> IF fit = 0..(w - 1) THEN "ok" ELSE "fatal",
         mem |-> IF fit = {} THEN m ELSE Store(m, i, off, val, fit)]

\* <Region as MemWrite<T>>::write
region_write(m, i, addr, val, w) ==
    IF w = 1 THEN mem_write_as_self(m, i, addr, val)
    ELSE mem_write_as_other(m, i, addr, val, w)

\* the first region of the sequence rs whose range holds addr, or 0
Owner(rs, addr) ==
    LET hits == {n \in 1..Len(rs) : addr >= lo(rs[n]) /\ addr <= hi(rs[n])}
    IN  IF hits = {} THEN 0
        ELSE rs[CHOOSE n \in hits : \A k \in hits : n <= k]

\* Memory::read with a default arm that returns zero instead of unreachable!()
mem_read_silent_zero(m, p, addr, w) ==
    LET i == Owner(<<SystemRom, ExternRam, InternRam, PalettRam,
                     VisualRam, OAM, PakRom>>, addr)
    IN  IF i = 0 THEN [out |-> "ok", val |-> {}] ELSE region_read(m, p, i, addr, w)

\* Memory::read::<T>
mem_read(m, p, addr, w) ==
    LET i == Owner(<<SystemRom, ExternRam, InternRam, PalettRam,
                     VisualRam, OAM, PakRom>>, addr)
    IN  IF i = 0 THEN MemFatal ELSE region_read(m, p, i, addr, w)

\* Memory::write8::<T>: T is any type the three regions can store
write8(m, addr, val, w) ==
    LET i == Owner(<<ExternRam, InternRam, PakRom>>, addr)
    IN  IF i = 0 THEN [out |-> "fatal", mem |-> m]
        ELSE region_write(m, i, addr, val, w)

\* Memory::write16 with an arm for the boot ROM as well
write16_with_rom(m, addr, val, w) ==
    LET i == Owner(<<SystemRom, ExternRam, InternRam, PalettRam, VisualRam, OAM,
                     PakRom>>, addr)
    IN  IF i = 0 THEN [out |-> "fatal", mem |-> m]
        ELSE region_write(m, i, addr, val, w)

\* Memory::write16::<T>: T is any type the six regions can store
write16(m, addr, val, w) ==
    LET i == Owner(<<ExternRam, InternRam, PalettRam, VisualRam, OAM, PakRom>>, addr)
    IN  IF i = 0 THEN [out |-> "fatal", mem |-> m]
        ELSE region_write(m, i, addr, val, w)

\* Memory::write32::<T>
write32(m, addr, val, w) == write16(m, addr, val, w)

\* the types each entry point accepts, by width: the where clauses
Write8Types == WriteWidths[ExternRam] \cap WriteWidths[InternRam] \cap WriteWidths[PakRom]
Write16Types ==
    WriteWidths[ExternRam] \cap WriteWidths[InternRam] \cap WriteWidths[PalettRam]
        \cap WriteWidths[VisualRam] \cap WriteWidths[OAM] \cap WriteWidths[PakRom]
Write32Types == Write16Types

(***************************************************************************)
(* Inputs of the memory operations.                                        *)
(***************************************************************************)
\* per region: its first byte, the last two bytes of its buffer, the first
\* byte past its buffer, and the last four bytes of its range; and three
\* addresses in no region (0x00020000, 0x04000000, 0x10000000)
AddrSample ==
    UNION {{lo(i), lo(i) + len(i) - 2, lo(i) + len(i) - 1, lo(i) + len(i),
            hi(i) - 3, hi(i)} : i \in 1..7}
        \cup {131072, 67108864, 268435456}
MemVals == {Word(57005, 48879)}                 \* 0xDEADBEEF
PakLens == {4}                                  \* bytes read from the cartridge file

MCall(op, a, w, v, out, val) ==
    [op |-> op, a |-> a, w |-> w, v |-> v, out |-> out, val |-> val]
NoMCall == MCall("new", 0, 0, {}, "ok", {})

(***************************************************************************)
(* The Memory as a state machine: one action per public operation.         *)
(***************************************************************************)
MemRunning == mlast.out # "fatal"

Read(addr, w) ==
    /\ MemRunning
    /\ LET r == mem_read(mem, pak, addr, w)
       IN  mlast' = MCall("read", addr, w, {}, r.out, r.val)
    /\ UNCHANGED <<mem, pak, nmem, cpuVars>>

Write8(addr, v, w) ==
    /\ MemRunning
    /\ nmem > 0
    /\ nmem' = nmem - 1
    /\ LET r == write8(mem, addr, Truncate(v, w), w)
       IN  /\ mem' = r.mem
           /\ mlast' = MCall("write8", addr, w, Truncate(v, w), r.out, {})
    /\ UNCHANGED <<pak, cpuVars>>

Write16(addr, v, w) ==
    /\ MemRunning
    /\ nmem > 0
    /\ nmem' = nmem - 1
    /\ LET r == write16(mem, addr, Truncate(v, w), w)
       IN  /\ mem' = r.mem
           /\ mlast' = MCall("write16", addr, w, Truncate(v, w), r.out, {})
    /\ UNCHANGED <<pak, cpuVars>>

Write32(addr, v, w) ==
    /\ MemRunning
    /\ nmem > 0
    /\ nmem' = nmem - 1
    /\ LET r == write32(mem, addr, Truncate(v, w), w)
       IN  /\ mem' = r.mem
           /\ mlast' = MCall("write32", addr, w, Truncate(v, w), r.out, {})
    /\ UNCHANGED <<pak, cpuVars>>

\* impl Default for ARM7, with a budget of n register-file mutations
CpuInit(n) ==
    /\ regs = DefaultRegs
    /\ cpsr = DefaultCpsr
    /\ spsr = DefaultSpsr
    /\ last = NoCall
    /\ nreg = n
    /\ bank = NoBank

\* no Memory is in use
MemIdle ==
    /\ mem = <<>>
    /\ pak = 0
    /\ mlast = NoMCall
    /\ nmem = 0

(***************************************************************************)
(* Spec: the whole public surface of ARM7 from default construction.       *)
(***************************************************************************)
Init == CpuInit(MaxRegOpsFull) /\ MemIdle

Next ==
    \/ \E m \in ARM7Mode : SetMode(m)
    \/ \E f \in FlagOps : FlagOp(f)
    \/ \E r \in RegSampleFull, v \in RegValsFull : RegMutWrite(r, v)
    \/ \E r \in RegSampleFull, v \in RegValsFull : RegOp(r, v)
    \/ \E v \in PcValsFull : SetPc(v)
    \/ IncPc

Spec == Init /\ [][Next]_vars

(***************************************************************************)
(* SpecReg: the register file under mode and instruction-set-state         *)
(* changes.  The flags N, Z, C, V, I, F are read by no register operation  *)
(* and are left at their default here.                                     *)
(***************************************************************************)
InitReg == CpuInit(MaxRegOps) /\ MemIdle

NextReg ==
    \/ \E m \in ARM7Mode : SetMode(m)
    \/ \E f \in {"set_thumb", "reset_thumb"} : FlagOp(f)
    \/ \E r \in RegSample, v \in RegVals : RegMutWrite(r, v)
    \/ \E r \in RegSample, v \in RegVals : RegOp(r, v)
    \/ \E v \in PcVals : SetPc(v)
    \/ IncPc

SpecReg == InitReg /\ [][NextReg]_vars

(***************************************************************************)
(* SpecFn: the functions of the register map, of the saved-status cells    *)
(* and of the condition layer, and the program-counter and register       *)
(* operations, applied to every status word with a valid mode encoding and *)
(* to a sample of instruction words.                                       *)
(***************************************************************************)
\* status words: every mode, both instruction-set states, every N Z C V
PsrSample ==
    {ModeDiscriminant(m) \cup t \cup f \cup I_MASK :
        m \in ARM7Mode, t \in SUBSET T_MASK, f \in SUBSET PSR_COND_MASK}

\* instruction words: every condition field over three settings of bits 27..0
InstrSample ==
    {Shl(Bits16(k), 28) \cup low :
        k \in 0..15, low \in {{}, 0..27, Word(2560, 1)}}

\* no call has been made yet: a query is applied once, to the state as given
Fresh == last.op = "new"

RegMapIndexCall(r) ==
    /\ Fresh
    /\ LET x == reg_map_index(cpsr, r)
           o == IF x = Fatal THEN "fatal" ELSE IF x = None THEN "none" ELSE "ok"
       IN  last' = FnCall("reg_map_index", "", r, {}, o, x)
    /\ UNCHANGED <<regs, cpsr, spsr, nreg, bank, memVars>>

SpsrCall ==
    /\ Fresh
    /\ LET x == spsr_cell(cpsr)
           o == IF x = Fatal THEN "fatal" ELSE IF x = None THEN "none" ELSE "ok"
       IN  last' = FnCall("spsr", "", 0, {}, o, x)
    /\ UNCHANGED <<regs, cpsr, spsr, nreg, bank, memVars>>

CondDecode(instr) ==
    /\ Fresh
    /\ LET d == decode(instr)
       IN  last' = IF d = Unreachable
                   THEN FnCall("decode", "", 0, instr, "fatal", 0)
                   ELSE FnCall("decode", d, 0, instr, "ok", 0)
    /\ UNCHANGED <<regs, cpsr, spsr, nreg, bank, memVars>>

CondIsSatisfied(cond) ==
    /\ Fresh
    /\ LET s == is_satisfied(cond, cpsr)
       IN  last' = FnCall("is_satisfied", cond, 0, {}, s.out, IF s.val THEN 1 ELSE 0)
    /\ UNCHANGED <<regs, cpsr, spsr, nreg, bank, memVars>>

\* instruction words for the branch decoder: eight settings of bits 31..24
\* (condition field, link bit and the bits between) over eight settings of
\* the 24-bit immediate (0, 1, 0x400000, 0x7FFFFF, 0x800000, 0x800001,
\* 0xFFFFFE, 0xFFFFFF)
BranchSample ==
    {Shl(Bits16(k), 24) \cup low :
        k \in {10, 11, 27, 117, 122, 234, 235, 255},
        low \in {{}, {0}, {22}, 0..22, {23}, {0, 23}, 1..23, 0..23}}

\* Branch::decode(instr): m the condition, r the link flag as 0 / 1, res the
\* offset
BranchDecode(instr) ==
    /\ Fresh
    /\ LET b == Branch_decode(instr)
       IN  last' = FnCall("branch_decode", b.cond, IF b.link THEN 1 ELSE 0,
                          instr, b.out, b.off)
    /\ UNCHANGED <<regs, cpsr, spsr, nreg, bank, memVars>>

InitFn ==
    /\ regs = DefaultRegs
    /\ cpsr \in PsrSample
    /\ spsr = DefaultSpsr
    /\ last = NoCall
    /\ nreg = MaxFnPcOps
    /\ bank = NoBank
    /\ MemIdle

NextFn ==
    \/ \E r \in R0..R15 : RegMapIndexCall(r)
    \/ SpsrCall
    \/ \E i \in InstrSample : CondDecode(i)
    \/ \E c \in Cond : CondIsSatisfied(c)
    \/ \E v \in PcVals : SetPc(v)
    \/ IncPc
    \/ \E r \in RegSample, v \in RegVals : RegMutWrite(r, v)
    \/ \E r \in RegSample, v \in RegVals : RegOp(r, v)
    \/ \E i \in BranchSample : BranchDecode(i)

SpecFn == InitFn /\ [][NextFn]_vars

(***************************************************************************)
(* SpecMem: the Memory after a successful Memory::new, with an idle CPU.   *)
(***************************************************************************)
\* every buffer as constructed: nothing written yet
FreshMem == [i \in 1..7 |-> [o \in {} |-> 0]]

InitMem ==
    /\ CpuInit(0)
    /\ mem = FreshMem
    /\ pak \in PakLens
    /\ mlast = NoMCall
    /\ nmem = MaxMemWrites

NextMem ==
    \/ \E a \in AddrSample, w \in {1, 2, 4} : Read(a, w)
    \/ \E a \in AddrSample, v \in MemVals, w \in Write8Types : Write8(a, v, w)
    \/ \E a \in AddrSample, v \in MemVals, w \in Write16Types : Write16(a, v, w)
    \/ \E a \in AddrSample, v \in MemVals, w \in Write32Types : Write32(a, v, w)

SpecMem == InitMem /\ [][NextMem]_vars

(***************************************************************************)
(* SpecWrite: the write entry points alone on the Memory as constructed.   *)
(***************************************************************************)
NextWrite ==
    \/ \E a \in AddrSample, v \in MemVals, w \in Write8Types : Write8(a, v, w)
    \/ \E a \in AddrSample, v \in MemVals, w \in Write16Types : Write16(a, v, w)
    \/ \E a \in AddrSample, v \in MemVals, w \in Write32Types : Write32(a, v, w)

SpecWrite == InitMem /\ [][NextWrite]_vars

(***************************************************************************)
(* SpecNew: Memory::new, given the length of the boot-ROM image compiled   *)
(* in and the length of the cartridge file, then reads of what it built.   *)
(***************************************************************************)
\* $name::create_from_array: copy_from_slice panics unless the slice is as
\* long as the buffer
create_from_array(i, array_len) ==
    IF array_len = len(i) THEN "ok" ELSE "fatal"

\* $name::create_from_file: the length check against $name::len()
create_from_file(i, file_len) ==
    IF file_len > len(i) THEN "err" ELSE "ok"

\* what the single file.read(buf) call may return for a file that fits the
\* buffer: the whole file, or fewer bytes (a short read)
ReadCounts(file_len) == {file_len, file_len \div 2}

\* lengths of the boot-ROM image: the buffer's length, the region's span, none
ArrayLens == {len(SystemRom), hi(SystemRom) - lo(SystemRom) + 1, 0}

\* lengths of the cartridge file: empty, four bytes, the buffer's length and
\* one more, the region's span and one more
FileLens ==
    {0, 4, len(PakRom), len(PakRom) + 1,
     hi(PakRom) - lo(PakRom) + 1, hi(PakRom) - lo(PakRom) + 2}

NewCall(array_len, file_len, out) ==
    [op |-> "Memory::new", array_len |-> array_len, file_len |-> file_len,
     out |-> out]

\* Memory::new: the fields are built in order, sys_rom first, pak_rom last
MemoryNew(array_len, file_len, n) ==
    /\ mlast = NoMCall
    /\ mem = <<>>
    /\ IF create_from_array(SystemRom, array_len) = "fatal"
       THEN /\ mlast' = NewCall(array_len, file_len, "fatal")
            /\ UNCHANGED <<mem, pak>>
       ELSE IF create_from_file(PakRom, file_len) = "err"
       THEN /\ mlast' = NewCall(array_len, file_len, "err")
            /\ UNCHANGED <<mem, pak>>
       ELSE /\ mlast' = NewCall(array_len, file_len, "ok")
            /\ mem' = FreshMem
            /\ pak' = n
    /\ UNCHANGED <<nmem, cpuVars>>

\* a read from the Memory that Memory::new returned
ReadBack(addr, w) ==
    /\ mem # <<>>
    /\ Read(addr, w)

InitNew == CpuInit(0) /\ MemIdle

NextNew ==
    \/ \E al \in ArrayLens, fl \in FileLens :
          \E n \in ReadCounts(fl) : MemoryNew(al, fl, n)
    \/ \E a \in AddrSample, w \in {1, 2, 4} : ReadBack(a, w)

SpecNew == InitNew /\ [][NextNew]_vars

(***************************************************************************)
(* SpecWord: the masked operations of Register, applied once to logical    *)
(* register 0 holding a sampled word, with sampled masks and values.       *)
(***************************************************************************)
WordSample == {{}, Bits16(1), Word(57005, 48879), AllBits}
MaskSample == {{}, M_MASK, PSR_COND_MASK, Word(0, 65535), AllBits}
ValSample == {{}, Bits16(17), Word(57005, 48879), AllBits}

\* cpu.reg_mut(R0).unwrap().set(mask, val)
RegisterSet(mask, val) ==
    /\ Fresh
    /\ regs' = [regs EXCEPT ![reg_map_index(cpsr, R0)] = set(@, mask, val)]
    /\ last' = FnCall("set", mask, R0, val, "ok", {})
    /\ UNCHANGED <<cpsr, spsr, nreg, bank, memVars>>

\* cpu.reg_mut(R0).unwrap().reset(mask, val)
RegisterReset(mask, val) ==
    /\ Fresh
    /\ regs' = [regs EXCEPT ![reg_map_index(cpsr, R0)] = reset(@, mask, val)]
    /\ last' = FnCall("reset", mask, R0, val, "ok", {})
    /\ UNCHANGED <<cpsr, spsr, nreg, bank, memVars>>

\* cpu.reg_mut(R0).unwrap().toggle(mask, val)
RegisterToggle(mask, val) ==
    /\ Fresh
    /\ regs' = [regs EXCEPT ![reg_map_index(cpsr, R0)] = toggle(@, mask, val)]
    /\ last' = FnCall("toggle", mask, R0, val, "ok", {})
    /\ UNCHANGED <<cpsr, spsr, nreg, bank, memVars>>

\* cpu.reg(R0).unwrap().read_masked(mask)
RegisterReadMasked(mask) ==
    /\ Fresh
    /\ last' = FnCall("read_masked", mask, R0, {}, "ok",
                      read_masked(reg(regs, cpsr, R0).val, mask))
    /\ UNCHANGED <<regs, cpsr, spsr, nreg, bank, memVars>>

\* ARM7::default(), then cpu.reg_mut(R0).unwrap().write(x)
InitWord ==
    /\ \E x \in WordSample : regs = [DefaultRegs EXCEPT ![R0] = x]
    /\ cpsr = DefaultCpsr
    /\ spsr = DefaultSpsr
    /\ last = NoCall
    /\ nreg = 0
    /\ bank = NoBank
    /\ MemIdle

NextWord ==
    \/ \E m \in MaskSample, v \in ValSample : RegisterSet(m, v)
    \/ \E m \in MaskSample, v \in ValSample : RegisterReset(m, v)
    \/ \E m \in MaskSample, v \in ValSample : RegisterToggle(m, v)
    \/ \E m \in MaskSample : RegisterReadMasked(m)

SpecWord == InitWord /\ [][NextWord]_vars

(***************************************************************************)
(* Claims about the register bank and the condition layer.                 *)
(***************************************************************************)
\* the banking table as the specification states it
C1_Table(m, r) ==
    IF r <= 7 \/ r = 15 THEN r
    ELSE IF r <= 12 THEN (IF m = "FIQ" THEN r + 8 ELSE r)
    ELSE CASE m \in {"User", "System"} -> r
           [] m = "FIQ"        -> r + 8
           [] m = "IRQ"        -> r + 14
           [] m = "Supervisor" -> r + 10
           [] m = "Abort"      -> r + 12
           [] m = "Undefined"  -> r + 16

\* C1: in ARM state, for each of the seven modes and each logical register
\* 0..15, reg_map_index returns the physical index of the banking table.
C1_RegMapIndexArm ==
    (last.op = "reg_map_index" /\ T_MASK \cap cpsr = {}) =>
        \A m \in ARM7Mode :
            (cpsr \cap M_MASK = ModeDiscriminant(m)) =>
                (last.out = "ok" /\ last.res = C1_Table(m, last.r))

C1_Witness ==
    /\ last.op = "reg_map_index"
    /\ T_MASK \cap cpsr = {}
    /\ cpsr \cap M_MASK = IRQ_MODE
    /\ last.r = 14
    /\ last.res = 28

\* C2: for every current mode and every target mode m, after set_mode(m) the
\* query mode() returns m.
C2_SetModeTakesEffect ==
    last.op = "set_mode" => mode(cpsr) = last.m

\* C3: in ARM state, for modes A # B and a register r in 8..14, after writing
\* v to r in mode A, then set_mode(B), any writes to r, then set_mode(A), a
\* read of r returns v.
C3_BankedValueSurvives ==
    bank.phase = 3 => reg(regs, cpsr, bank.r) = [some |-> TRUE, val |-> bank.v]

\* C4: after any sequence of public ARM7 operations the low five bits of the
\* current-status cell hold one of the seven valid mode encodings.
C4_ModeAlwaysValid ==
    cpsr \cap (0..4) \in
        {{4}, {4, 0}, {4, 1}, {4, 1, 0}, {4, 2, 1, 0}, {4, 3, 1, 0}, {4, 3, 2, 1, 0}}

C4_Witness ==
    /\ last.op = "set_mode"
    /\ last.m = "User"
    /\ cpsr \cap (0..4) = {4, 3, 2, 1, 0}
    /\ 30 \in cpsr
    /\ nreg = 0
    /\ regs[R13] # {}

\* the canonical ARM condition table over the flags of status word c
C5_Canon(cond, c) ==
    LET N == 31 \in c
        Z == 30 \in c
        C == 29 \in c
        V == 28 \in c
    IN  CASE cond = "EQ" -> Z
          [] cond = "NE" -> ~Z
          [] cond = "CS" -> C
          [] cond = "CC" -> ~C
          [] cond = "MI" -> N
          [] cond = "PL" -> ~N
          [] cond = "VS" -> V
          [] cond = "VC" -> ~V
          [] cond = "HI" -> C /\ ~Z
          [] cond = "LS" -> ~C \/ Z
          [] cond = "GE" -> N = V
          [] cond = "LT" -> N # V
          [] cond = "GT" -> ~Z /\ (N = V)
          [] cond = "LE" -> Z \/ (N # V)
          [] cond = "AL" -> TRUE

\* C5: for each of the 15 conditions and each combination of Z, C, N, V,
\* is_satisfied returns a value, and the value is that of the canonical table.
C5_IsSatisfiedCanonical ==
    last.op = "is_satisfied" =>
        (last.out = "ok" /\ ((last.res = 1) <=> C5_Canon(last.m, cpsr)))

\* the condition whose architectural code is k
C6_Name(k) ==
    <<"EQ", "NE", "CS", "CC", "MI", "PL", "VS", "VC",
      "HI", "LS", "GE", "LT", "GT", "LE", "AL">>[k + 1]

\* C6: decode returns the condition whose code is bits 31..28 of the word,
\* whatever bits 27..0 are; only code 15 yields no condition.
C6_DecodeTopNibble ==
    last.op = "decode" =>
        LET k == Half(last.v, 16) \div 4096
        IN  IF k <= 14 THEN last.out = "ok" /\ last.m = C6_Name(k)
            ELSE last.out = "fatal"

C7_Mutators ==
    {"set_neg_lt", "reset_neg_lt", "set_zero", "reset_zero", "set_carry",
     "reset_carry", "set_overflow", "reset_overflow", "set_irq_disable",
     "reset_irq_disable", "set_fiq_disable", "reset_fiq_disable",
     "set_thumb", "reset_thumb"}

C7_Sets(f) ==
    f \in {"set_neg_lt", "set_zero", "set_carry", "set_overflow",
           "set_irq_disable", "set_fiq_disable", "set_thumb"}

C7_Bit(f) ==
    CASE f \in {"set_neg_lt", "reset_neg_lt"}           -> 31
      [] f \in {"set_zero", "reset_zero"}               -> 30
      [] f \in {"set_carry", "reset_carry"}             -> 29
      [] f \in {"set_overflow", "reset_overflow"}       -> 28
      [] f \in {"set_irq_disable", "reset_irq_disable"} -> 7
      [] f \in {"set_fiq_disable", "reset_fiq_disable"} -> 6
      [] f \in {"set_thumb", "reset_thumb"}             -> 5

C7_Predicate(f, c) ==
    CASE f \in {"set_neg_lt", "reset_neg_lt"}           -> is_neg_lt(c)
      [] f \in {"set_zero", "reset_zero"}               -> is_zero(c)
      [] f \in {"set_carry", "reset_carry"}             -> is_carry(c)
      [] f \in {"set_overflow", "reset_overflow"}       -> is_overflow(c)
      [] f \in {"set_irq_disable", "reset_irq_disable"} -> is_irq_disable(c)
      [] f \in {"set_fiq_disable", "reset_fiq_disable"} -> is_fiq_disable(c)
      [] f \in {"set_thumb", "reset_thumb"}             -> is_thumb(c)

\* C7: each flag mutator changes only its own bit of the current-status cell:
\* afterwards the matching predicate is true after set_ and false after
\* reset_, and every other bit of the status cell, every general-purpose cell
\* and every saved-status cell is unchanged.
C7_FlagMutatorFrame ==
    [][last'.op \in C7_Mutators =>
          /\ C7_Predicate(last'.op, cpsr') = C7_Sets(last'.op)
          /\ (C7_Bit(last'.op) \in cpsr') = C7_Sets(last'.op)
          /\ cpsr' \ {C7_Bit(last'.op)} = cpsr \ {C7_Bit(last'.op)}
          /\ regs' = regs
          /\ spsr' = spsr]_vars

C7_Witness ==
    /\ last.op = "reset_irq_disable"
    /\ 7 \notin cpsr
    /\ {30, 29, 6} \subseteq cpsr
    /\ cpsr \cap (0..4) = {4, 1, 0}
    /\ regs[R13_FIQ] # {}

\* C8: set_mode(m) changes nothing but the five mode bits of the
\* current-status cell: flags, interrupt masks, Thumb bit, all 31
\* general-purpose cells and all saved-status cells keep their values.
C8_SetModeFrame ==
    [][last'.op = "set_mode" =>
          /\ cpsr' \ (0..4) = cpsr \ (0..4)
          /\ regs' = regs
          /\ spsr' = spsr]_vars

C8_Witness ==
    /\ last.op = "set_mode"
    /\ last.m = "System"
    /\ cpsr \cap (0..4) = {4, 3, 2, 1, 0}
    /\ {31, 7, 5} \subseteq cpsr
    /\ regs[R8_FIQ] # {}

(***************************************************************************)
(* Claims about the memory regions (SpecMem).                              *)
(***************************************************************************)
AllRegions == <<SystemRom, ExternRam, InternRam, PalettRam, VisualRam, OAM, PakRom>>
ReadWriteRegions == <<ExternRam, InternRam, PakRom>>

\* C9: every region's buffer holds exactly hi - lo + 1 bytes, so an 8-bit
\* read through the dispatcher returns a value (is not fatal) at every
\* address a with lo <= a <= hi of every region, a = hi included.
C9_ByteReadInRangeSucceeds ==
    (mlast.op = "read" /\ mlast.w = 1 /\ Owner(AllRegions, mlast.a) # 0) =>
        mlast.out = "ok"

\* C10: memory is little-endian and typed accesses round-trip: once
\* write32 has stored a 32-bit value v at an address a of a read/write
\* region (all four bytes inside the region's range), a 32-bit read at a
\* returns v and an 8-bit read at a + i returns byte i of v, least
\* significant first; and once a 16-bit value has been written, a 16-bit
\* read at the same address returns it.
C10_TypedRoundTrip ==
    /\ (mlast.op = "write32" /\ mlast.w = 4
            /\ Owner(ReadWriteRegions, mlast.a) # 0
            /\ mlast.a + 3 <= hi(Owner(ReadWriteRegions, mlast.a))) =>
          /\ mlast.out = "ok"
          /\ mem_read(mem, pak, mlast.a, 4) = [out |-> "ok", val |-> mlast.v]
          /\ \A i \in 0..3 :
                mem_read(mem, pak, mlast.a + i, 1)
                    = [out |-> "ok", val |-> BitsOfByte(ByteOf(mlast.v, i), 0)]
    /\ (mlast.op \in {"write16", "write32"} /\ mlast.w = 2
            /\ Owner(ReadWriteRegions, mlast.a) # 0
            /\ mlast.a + 1 <= hi(Owner(ReadWriteRegions, mlast.a))) =>
          /\ mlast.out = "ok"
          /\ mem_read(mem, pak, mlast.a, 2) = [out |-> "ok", val |-> mlast.v]

\* C11: unsupported operation/width combinations are refused statically and
\* never met at run time: a write8, write16 or write32 call that compiles and
\* targets an address inside one of the seven regions (all its bytes inside
\* the region's buffer) does not end in the fatal branch of the dispatcher.
C11_NoRuntimeRejection ==
    (/\ mlast.op \in {"write8", "write16", "write32"}
     /\ Owner(AllRegions, mlast.a) # 0
     /\ mlast.a - lo(Owner(AllRegions, mlast.a)) + mlast.w
            <= len(Owner(AllRegions, mlast.a))) =>
        mlast.out = "ok"

\* C12: a read of any width at an address in none of the seven ranges ends
\* fatally: it returns no value and is served by no region.
C12_ReadOutsideIsFatal ==
    (mlast.op = "read" /\ Owner(AllRegions, mlast.a) = 0) =>
        (mlast.out = "fatal" /\ mlast.val = {})

\* a read of each width outside every region has been made
C12_Witness ==
    /\ mlast.op = "read"
    /\ mlast.a = 67108864
    /\ mlast.w = 4
    /\ mlast.out = "fatal"

\* C13: the boot ROM is read-only: after any sequence of write8, write16 and
\* write32 calls every byte of the boot-ROM buffer equals the byte loaded at
\* construction.
C13_BootRomUnchanged ==
    \A off \in DOMAIN mem[SystemRom] \cup {0, len(SystemRom) - 1} :
        MemByte(mem, pak, SystemRom, off) = BiosByte(off)

\* a write aimed at the first byte of the boot ROM has been made
C13_Witness ==
    /\ mlast.op \in {"write8", "write16", "write32"}
    /\ mlast.a = lo(SystemRom)
    /\ nmem < MaxMemWrites

(***************************************************************************)
(* Claims about construction (SpecNew).                                    *)
(***************************************************************************)
\* C14: building the cartridge region from a file fails exactly when the
\* file is longer than the region's capacity of 128 MiB (the span
\* 0x08000000 .. 0x0FFFFFFF); for every file of length n up to that,
\* construction succeeds, bytes 0 .. n-1 of the buffer are the file's bytes
\* and every other byte is zero.
C14_CreateFromFile ==
    (mlast.op = "Memory::new" /\ mlast.out # "fatal") =>
        /\ mlast.out = "err" <=> mlast.file_len > hi(PakRom) - lo(PakRom) + 1
        /\ mlast.out = "ok" =>
              \A k \in {0, 1, 3, mlast.file_len - 1, mlast.file_len}
                        \cap (0..(len(PakRom) - 1)) :
                  MemByte(mem, pak, PakRom, k)
                      = IF k < mlast.file_len THEN FileByte(k) ELSE 0

\* C15: building a region from an in-memory buffer succeeds exactly when
\* the buffer is hi - lo + 1 bytes long (0x20000 for the boot ROM), and then
\* the region holds the buffer byte for byte; with any other length it
\* fails and no region exists.
C15_CreateFromArray ==
    mlast.op = "Memory::new" =>
        /\ mlast.out # "fatal"
              <=> mlast.array_len = hi(SystemRom) - lo(SystemRom) + 1
        /\ mlast.out = "ok" =>
              \A k \in {0, 1, len(SystemRom) - 1} :
                  MemByte(mem, pak, SystemRom, k) = BiosByte(k)
        /\ mlast.out = "fatal" => mem = <<>>

(***************************************************************************)
(* Claims about the program counter, the Thumb register view, the saved    *)
(* status cells, construction of the CPU and the storage cell.             *)
(***************************************************************************)
\* C16: inc_pc advances the program counter by the instruction width and
\* aligns it: in ARM state the new PC is PC + 4 with bits 0..1 cleared, in
\* Thumb state PC + 2 with bit 0 cleared (so always a multiple of 4, or of
\* 2); no other cell and no status bit changes.
C16_IncPc ==
    [][last'.op = "inc_pc" =>
          /\ last'.out = "ok"
          /\ regs'[PC] = IF is_thumb(cpsr)
                         THEN AddSmall(regs[PC], 2).sum \ {0}
                         ELSE AddSmall(regs[PC], 4).sum \ {0, 1}
          /\ \A i \in (DOMAIN regs) \ {PC} : regs'[i] = regs[i]
          /\ cpsr' = cpsr
          /\ spsr' = spsr]_vars

\* C17: in Thumb state, in every mode, reg_map_index maps R0..R7 to the cell
\* of the same index and reports R8..R15 as unavailable, while the program
\* counter stays readable and writable on cell 15 through pc, set_pc and
\* inc_pc.
C17_ThumbView ==
    is_thumb(cpsr) =>
        /\ last.op = "reg_map_index" =>
              IF last.r <= 7
              THEN last.out = "ok" /\ last.res = last.r
              ELSE last.out = "none"
        /\ last.op = "set_pc" =>
              last.out = "ok" /\ regs[15] = last.v /\ pc(regs) = last.v
        /\ (last.op = "inc_pc" /\ last.out = "ok") =>
              regs[15] = AddSmall(last.v, 2).sum \ {0} /\ pc(regs) = regs[15]

\* reg_map_index was asked for the stack pointer in Thumb state, FIQ mode
C17_Witness ==
    /\ is_thumb(cpsr)
    /\ mode(cpsr) = "FIQ"
    /\ last.op = "reg_map_index"
    /\ last.r = R13
    /\ last.out = "none"

\* the saved-status cell that belongs to each privileged mode
C18_Own(m) ==
    CASE m = "FIQ"        -> SPSR_FIQ
      [] m = "Supervisor" -> SPSR_SV
      [] m = "Abort"      -> SPSR_ABT
      [] m = "IRQ"        -> SPSR_IRQ
      [] m = "Undefined"  -> SPSR_UND

\* C18: spsr() returns no cell exactly in User and System mode; in FIQ, IRQ,
\* Supervisor, Abort and Undefined mode it returns that mode's own cell of
\* the saved-status array (never the current-status cell), and no two of
\* these modes are handed the same cell.
C18_Spsr ==
    last.op = "spsr" =>
        /\ last.out = "none" <=> mode(cpsr) \in {"User", "System"}
        /\ mode(cpsr) \notin {"User", "System"} =>
              /\ last.out = "ok"
              /\ last.res = C18_Own(mode(cpsr))
              /\ last.res \in DOMAIN spsr
              /\ \A c \in PsrSample :
                    mode(c) \notin {"User", "System", mode(cpsr)} =>
                        spsr_cell(c) # last.res

\* spsr() was called in IRQ mode and handed out a cell
C18_Witness ==
    /\ last.op = "spsr"
    /\ mode(cpsr) = "IRQ"
    /\ last.out = "ok"

\* C19: the default-constructed CPU has all 31 general-purpose cells and
\* all saved-status cells zero, mode() = FIQ, IRQ disabled, and every other
\* bit of the current-status cell zero: ARM state, FIQ enabled, N, Z, C, V
\* clear.
C19_Default ==
    last.op = "new" =>
        /\ \A i \in 0..30 : regs[i] = {}
        /\ \A i \in DOMAIN spsr : spsr[i] = {}
        /\ mode(cpsr) = "FIQ"
        /\ is_irq_disable(cpsr)
        /\ ~is_thumb(cpsr)
        /\ ~is_fiq_disable(cpsr)
        /\ ~is_neg_lt(cpsr) /\ ~is_zero(cpsr) /\ ~is_carry(cpsr) /\ ~is_overflow(cpsr)
        /\ cpsr \ ({7} \cup (0..4)) = {}

\* the CPU as constructed, before any operation
C19_Witness ==
    /\ last.op = "new"
    /\ DOMAIN regs = 0..30
    /\ cpsr = {0, 4, 7}

\* C20: for every cell value x, mask m and value v: set gives x OR (v AND m),
\* reset gives x AND NOT (v AND m), toggle gives x XOR (v AND m),
\* read_masked returns x AND m and leaves x as it is; in each case every
\* bit outside m keeps its value (and no other cell changes).
C20_MaskedOps ==
    [][LET x  == regs[R0]
           y  == regs'[R0]
           vm == last'.v \cap last'.m
       IN  last'.op \in {"set", "reset", "toggle", "read_masked"} =>
             /\ last'.op = "set" => y = x \cup vm
             /\ last'.op = "reset" => y = x \ vm
             /\ last'.op = "toggle" => y = (x \ vm) \cup (vm \ x)
             /\ last'.op = "read_masked" => (last'.res = x \cap last'.m /\ y = x)
             /\ y \ last'.m = x \ last'.m
             /\ \A i \in (DOMAIN regs) \ {R0} : regs'[i] = regs[i]
             /\ cpsr' = cpsr]_vars

\* toggle was applied to 0xDEADBEEF with a value reaching outside the mask
C20_Witness ==
    /\ last.op = "toggle"
    /\ last.m = PSR_COND_MASK
    /\ last.v = AllBits
    /\ regs[R0] = Word(11949, 48879)


(***************************************************************************)
(* Claims about the program counter's cell, the write frame of the memory, *)
(* the access widths, the Thumb register view under reg_op, the register   *)
(* map as a whole and the branch decoder.                                  *)
(***************************************************************************)
\* C21: the program counter is not banked: pc() reads physical cell 15 in
\* every mode and both instruction-set states; after set_pc(v), pc() returns
\* v; set_mode, set_thumb and reset_thumb never change pc(); and in ARM state
\* reg(15) returns the same value as pc().
C21_PcUnbanked ==
    [][/\ pc(regs') = regs'[15]
       /\ last'.op = "set_pc" => pc(regs') = last'.v
       /\ last'.op \in {"set_mode", "set_thumb", "reset_thumb"} =>
              pc(regs') = pc(regs)
       /\ (~is_thumb(cpsr') /\ mode(cpsr') # Unreachable) =>
              reg(regs', cpsr', R15) = [some |-> TRUE, val |-> pc(regs')]]_vars

\* the mode was changed while the program counter held a value set in Thumb
\* state
C21_Witness ==
    /\ last.op = "set_mode"
    /\ mode(cpsr) = "Supervisor"
    /\ is_thumb(cpsr)
    /\ pc(regs) = Word(65535, 65532)

\* C22: the seven address ranges are pairwise disjoint, so an address lies in
\* at most one region and the first-match dispatch finds that one; and a
\* write at address a of size s changes only bytes at offsets a - lo ..
\* a - lo + s - 1 of the region that owns a: every other byte of that region
\* and every byte of every other region is unchanged.
C22_WriteFrame ==
    [][/\ \A i, j \in 1..7 : i < j => hi(i) < lo(j)
       /\ mlast'.op \in {"write8", "write16", "write32"} =>
             LET a == mlast'.a
                 s == mlast'.w
                 hits == {i \in 1..7 : lo(i) <= a /\ a <= hi(i)}
             IN  /\ Cardinality(hits) <= 1
                 /\ hits # {} => Owner(AllRegions, a) \in hits
                 /\ \A i \in 1..7 :
                       \A off \in DOMAIN mem'[i] \cup DOMAIN mem[i] :
                          MemByte(mem', pak, i, off) # MemByte(mem, pak, i, off) =>
                             /\ i \in hits
                             /\ off \in (a - lo(i))..(a - lo(i) + s - 1)]_vars

\* a 32-bit value has been stored at the start of the external RAM
C22_Witness ==
    /\ mlast.op = "write32"
    /\ mlast.a = lo(ExternRam)
    /\ mlast.w = 4
    /\ mlast.out = "ok"
    /\ \A k \in 0..3 :
          MemByte(mem, pak, ExternRam, k) = ByteOf(Word(57005, 48879), k)

\* C23: the width in a write operation's name is the width of the access:
\* write8 takes only 8-bit values and an accepted call stores exactly one
\* byte, write16 only 16-bit values and two bytes, write32 only 32-bit values
\* and four bytes.
C23_WidthInName ==
    mlast.op \in {"write8", "write16", "write32"} =>
        LET n == IF mlast.op = "write8" THEN 1
                 ELSE IF mlast.op = "write16" THEN 2 ELSE 4
        IN  /\ mlast.w = n
            /\ (mlast.out = "ok" /\ nmem = MaxMemWrites - 1) =>
                  \E i \in 1..7 :
                     /\ Cardinality(DOMAIN mem[i]) = n
                     /\ \A j \in (1..7) \ {i} : DOMAIN mem[j] = {}

\* C24 as stated: in Thumb state reg_op on register r is fatal exactly when r
\* is in 8..14; for r in 0..7 it applies the operation to cell r, and an
\* access to the program counter (r = 15) is not fatal; reg() and reg_mut()
\* report the unmapped registers as unavailable without failing and without
\* changing any cell.
C24_ThumbRegOpAsStated ==
    [][is_thumb(cpsr) =>
          /\ last'.op = "reg_op" =>
                /\ last'.out = "fatal" <=> last'.r \in 8..14
                /\ last'.r \in 0..7 => regs' = [regs EXCEPT ![last'.r] = last'.v]
          /\ (last'.op = "reg_mut" /\ last'.r \in 8..15) =>
                last'.out = "none" /\ regs' = regs
          /\ \A r \in 8..15 : ~reg(regs, cpsr, r).some]_vars

\* C24: in Thumb state reg_op on register r is fatal exactly when r is in
\* 8..15, the program counter included (it is reached through pc, set_pc and
\* inc_pc instead); for r in 0..7 it applies the operation to cell r and to no
\* other cell; reg() and reg_mut() report registers 8..15 as unavailable
\* without failing and without changing any cell.
C24_ThumbRegOp ==
    [][is_thumb(cpsr) =>
          /\ last'.op = "reg_op" =>
                /\ last'.out = "fatal" <=> last'.r \in 8..15
                /\ last'.out = "fatal" => regs' = regs
                /\ last'.r \in 0..7 => regs' = [regs EXCEPT ![last'.r] = last'.v]
          /\ (last'.op = "reg_mut" /\ last'.r \in 8..15) =>
                last'.out = "none" /\ regs' = regs
          /\ \A r \in 8..15 : ~reg(regs, cpsr, r).some]_vars

\* reg_op was applied to the program counter in Thumb state
C24_Witness ==
    /\ is_thumb(cpsr)
    /\ last.op = "reg_op"
    /\ last.r = R15
    /\ last.out = "fatal"

\* C25: inc_pc is total: it returns for every program-counter value, and
\* where the sum leaves 32 bits it wraps modulo 2^32 (0xFFFFFFFC becomes 0 in
\* ARM state) instead of failing.
C25_IncPcTotal ==
    last.op = "inc_pc" =>
        LET s == IF is_thumb(cpsr) THEN AddSmall(last.v, 2) ELSE AddSmall(last.v, 4)
        IN  /\ last.out = "ok"
            /\ s.carry =>
                  regs[PC] = s.sum \ (IF is_thumb(cpsr) THEN {0} ELSE {0, 1})

\* C26: a 16- or 32-bit access never touches bytes outside the owning
\* region's buffer: no byte is ever stored past the end of a buffer, and an
\* access that starts in a region and whose last byte would lie beyond the end
\* of that region's buffer is fatal; a read returns nothing (no byte of the
\* next region), and a write leaves every other region as it was.
C26_StraddlingAccessFatal ==
    /\ \A i \in 1..7 : DOMAIN mem[i] \subseteq 0..(len(i) - 1)
    /\ LET i == Owner(AllRegions, mlast.a)
       IN  (/\ mlast.op \in {"read", "write8", "write16", "write32"}
            /\ mlast.w \in {2, 4}
            /\ i # 0
            /\ mlast.a - lo(i) + mlast.w > len(i)) =>
               /\ mlast.out = "fatal"
               /\ mlast.val = {}
               /\ (mlast.op # "read" /\ nmem = MaxMemWrites - 1) =>
                     \A j \in (1..7) \ {i} : mem[j] = FreshMem[j]

\* a 16-bit write at the last byte of the external RAM's buffer ended fatal
\* after storing the one byte that fits
C26_Witness ==
    /\ mlast.op = "write16"
    /\ mlast.w = 2
    /\ mlast.a = lo(ExternRam) + len(ExternRam) - 1
    /\ mlast.out = "fatal"
    /\ DOMAIN mem[ExternRam] = {len(ExternRam) - 1}

\* C27: for every mode and both instruction-set states reg_map_index,
\* restricted to the registers it reports available, is injective with
\* results in 0..30, so a write through reg_mut or reg_op changes exactly one
\* physical cell and no other logical register of the same mode; each banked
\* cell 16..30 is the image of exactly one (mode, logical register) pair; and
\* User and System map all sixteen registers to the same cells.
C27_RegMap ==
    [][/\ last'.op = "reg_map_index" =>
             LET avail == {r \in R0..R15 : reg_map_index(cpsr, r) \notin {None, Fatal}}
             IN  /\ \A r \in avail : reg_map_index(cpsr, r) \in 0..(NUM_REGS - 1)
                 /\ \A r1, r2 \in avail :
                       reg_map_index(cpsr, r1) = reg_map_index(cpsr, r2) => r1 = r2
                 /\ \A k \in R8_FIQ..(NUM_REGS - 1) :
                       Cardinality({p \in ARM7Mode \X (R0..R15) :
                           reg_map_index(ModeDiscriminant(p[1]), p[2]) = k}) = 1
                 /\ \A r \in R0..R15, t \in SUBSET T_MASK :
                       reg_map_index(ModeDiscriminant("User") \cup t, r)
                           = reg_map_index(ModeDiscriminant("System") \cup t, r)
       /\ (last'.op \in {"reg_mut", "reg_op"} /\ last'.out = "ok") =>
             /\ regs' = [regs EXCEPT ![reg_map_index(cpsr, last'.r)] = last'.v]
             /\ Cardinality({i \in DOMAIN regs : regs'[i] # regs[i]}) <= 1
             /\ \A r \in (R0..R15) \ {last'.r} :
                   reg(regs', cpsr, r) = reg(regs, cpsr, r)]_vars

\* the stack pointer was written through reg_op in IRQ mode, ARM state
C27_Witness ==
    /\ last.op = "reg_op"
    /\ last.out = "ok"
    /\ last.r = R13
    /\ mode(cpsr) = "IRQ"
    /\ ~is_thumb(cpsr)
    /\ regs[R13_IRQ] = last.v
    /\ regs[R13] = {}

\* C28: for every instruction word whose condition field decodes,
\* Branch::decode yields link = bit 24 and offset = 4 * (bits 23..0 read as a
\* signed 24-bit number), computed in 32-bit arithmetic: the offset is a
\* multiple of 4 in -2^25 .. 2^25 - 4, is negative exactly when bit 23 is set,
\* and does not depend on bits 31..24.
C28_BranchDecode ==
    (last.op = "branch_decode" /\ last.out = "ok") =>
        LET instr == last.v
            imm[j \in 0..23] ==
                IF j = 23 THEN 0
                ELSE (IF j \in instr THEN 2^j ELSE 0) + imm[j + 1]
            s24 == IF 23 \in instr THEN imm[0] - 2^23 ELSE imm[0]
        IN  /\ (last.r = 1) <=> (24 \in instr)
            /\ last.res = 4 * s24
            /\ last.res % 4 = 0
            /\ last.res \in (-(2^25))..(2^25 - 4)
            /\ (last.res < 0) <=> (23 \in instr)
            /\ last.res = Branch_decode(instr \cap (0..23)).off

\* a branch with link and the most negative offset was decoded
C28_Witness ==
    /\ last.op = "branch_decode"
    /\ last.out = "ok"
    /\ last.v = Shl(Bits16(11), 24) \cup {23}
    /\ last.r = 1
    /\ last.res = -(2^25)

=============================================================================
